---- MODULE Spec2Model ----
(***************************************************************************)
(* The Scheduling plugin of src/scheduling.py: the registry of flight      *)
(* plans missing approval, the /save and /approve/{uuid} handlers and the  *)
(* background task _do_send_to_gs that hands a compiled plan to the        *)
(* ground-station connector.                                               *)
(*                                                                         *)
(* The handlers are asyncio coroutines on one event loop: the code between *)
(* two awaits that really suspend is one atomic step.  The awaits that     *)
(* suspend are the compiler call (line 194) and send_control (line 276).   *)
(* Tasks added to BackgroundTasks run after the handler has returned its   *)
(* response.                                                               *)
(***************************************************************************)
EXTENDS Integers, FiniteSets, Sequences, TLC

VARIABLES
    flight_plans_missing_approval, \* dict[UUID, FlightPlan], line 76
    submitted,         \* the plans /save accepted, by the UUID uuid.uuid4() gave
    nsaves,            \* the number of /save calls made
    last_save,         \* the response of the latest /save call
    artifacts,         \* sha1 of the artifacts in the sys_log artifact store
    events,            \* the events given to sys_log.log_event
    decisions,         \* the /approve calls made, each with its background task
    compiler_calls,    \* the calls of Compiler.compile
    sent,              \* the calls of gs_connector.send_control
    error_log          \* the logger.error records

vars == <<flight_plans_missing_approval, submitted, nsaves, last_save, artifacts,
          events, decisions, compiler_calls, sent, error_log>>

(* ------------------------------ bounds --------------------------------- *)

\* The number of requests made, /save and /approve together.
MaxRequests == 4

(* ------------------------------ values --------------------------------- *)

\* The values uuid.uuid4() returns: as many as requests are allowed, so that
\* uuid4 always has a value it has not returned before.
FlightPlanUUIDs == 1 .. MaxRequests

\* Ground stations: 101 is registered with the connector, 102 is not.
GroundStationUUIDs == {101, 102}
registered_groundstations == {101}

\* Text as it arrives in a request.  A text is empty, is no UUID at all, or
\* is one of the spellings uuid.UUID() accepts: the canonical lower-case
\* hyphenated one that str(UUID) produces, or another one (upper case,
\* braces, urn:uuid: prefix, no hyphens).
EmptyText == [form |-> "empty", hex |-> 0]
MalformedText == [form |-> "malformed", hex |-> 0]
CanonicalText(u) == [form |-> "canonical", hex |-> u]
UpperText(u) == [form |-> "upper", hex |-> u]

Invalid == 0

\* str(uuid), f"{uuid}"
UUIDStr(u) == CanonicalText(u)

\* uuid.UUID(text): the UUID a text spells, ValueError (Invalid) otherwise
UUID(text) == IF text.form \in {"canonical", "upper"} THEN text.hex ELSE Invalid

Users == {"alice"}
Bodies == {"commands-1", "commands-2"}
SatNames == {"", "SAT-1"}
Datetimes == {"", "2025-01-01T12:00:00+01:00"}
GsIdTexts == {EmptyText, MalformedText}
             \cup {CanonicalText(g) : g \in GroundStationUUIDs}

\* class FlightPlan(BaseModel)
FlightPlan == [flight_plan : Bodies, datetime : Datetimes, gs_id : GsIdTexts,
               sat_name : SatNames]

\* The uuid texts a caller of /approve/{uuid} may give: the canonical text of
\* every UUID, a second spelling of the first UUID, and a text that is none.
UuidTexts == {CanonicalText(u) : u \in FlightPlanUUIDs}
             \cup {UpperText(1), MalformedText}

\* What Compiler.compile returns to its n-th caller: the compiled plan, an
\* opaque value named by the call that produced it, and its artifact id.
NotCompiled == [compiled_by |-> 0]
CompiledPlan(n) == [compiled_by |-> n]
ArtifactOf(compiled_plan) == [sha1_of |-> compiled_plan]

NoSave == [status |-> 0, message |-> "", fp_id |-> EmptyText]

(* ------------------------------- Init ---------------------------------- *)

Init ==
    /\ flight_plans_missing_approval = <<>>
    /\ submitted = <<>>
    /\ nsaves = 0
    /\ last_save = NoSave
    /\ artifacts = {}
    /\ events = {}
    /\ decisions = <<>>
    /\ compiler_calls = {}
    /\ sent = {}
    /\ error_log = {}

(* ------------------------------ /save ---------------------------------- *)

\* As uuid4, with an identifier that may repeat an earlier one (one derived
\* from the content, as the TODO of line 137 proposes).
uuid4_repeats == FlightPlanUUIDs

\* uuid.uuid4(): a random 122-bit value; a repeat of an earlier value has
\* probability 2^-122 and is taken not to happen.  The values are opaque and
\* only compared for equality, so they are named in the order of issue: the
\* k-th value returned is k.
uuid4 == {u \in FlightPlanUUIDs \ DOMAIN submitted :
             \A v \in FlightPlanUUIDs \ DOMAIN submitted : u <= v}

\* As Validate, with the datetime check placed before the satellite check.
Validate_datetime_first(fp) ==
    IF fp.datetime = "" THEN "Rejected, Missing datetime"
    ELSE IF fp.sat_name = "" THEN "Rejected, Missing Satellite reference"
    ELSE IF fp.gs_id = EmptyText THEN "Rejected, Missing GS ID"
    ELSE "ok"

\* The presence checks of lines 89-99, in the order of the code.
Validate(fp) ==
    IF fp.sat_name = "" THEN "Rejected, Missing Satellite reference"
    ELSE IF fp.datetime = "" THEN "Rejected, Missing datetime"
    ELSE IF fp.gs_id = EmptyText THEN "Rejected, Missing GS ID"
    ELSE "ok"

\* dict.__setitem__
DictSet(d, k, v) == [x \in (DOMAIN d) \cup {k} |-> IF x = k THEN v ELSE d[x]]

\* As DictPop, reading the entry without removing it (d[k] for d.pop(k)).
DictPop_reads(d, k) == d

\* dict.pop(k) on a present key: the dict without k
DictPop(d, k) == [x \in (DOMAIN d) \ {k} |-> d[x]]

\* As ArtifactId, losing the reference when the content is already stored.
NoArtifact == [flight_plan |-> "", datetime |-> "", gs_id |-> EmptyText,
               sat_name |-> ""]
ArtifactId_not_reused(store, content) ==
    IF content \in store THEN NoArtifact ELSE content

\* Lines 104-110: the sha1 of the artifact create_artifact made, or, when the
\* store already holds the content, the sha1 the IntegrityError carries.  The
\* sha1 of a content is modelled by the content.
ArtifactId(store, content) == content

\* As RegistryAtLogEvent, with log_event called before the insertion.
RegistryAtLogEvent_before_insert(before, after) == DOMAIN before

\* The keys of the registry when line 120 calls log_event: the insertion of
\* line 116 has been made.
RegistryAtLogEvent(before, after) == DOMAIN after

\* The event of lines 120-133; "by" is the number of the /save call and
\* "pending" the keys of the registry when log_event was called.
SaveEvent(n, user_id, sha1, pending) ==
    [descriptor |-> "FlightplanSaveEvent", user |-> user_id, artifact |-> sha1,
     gs |-> Invalid, by |-> n, pending |-> pending]

\* POST /save.  The handler has no await that suspends: one step.
new_flihtplan_schedule(fp, user_id) ==
    /\ nsaves + Len(decisions) < MaxRequests
    /\ nsaves' = nsaves + 1
    /\ IF Validate(fp) # "ok"
       THEN /\ last_save' = [status |-> 201, message |-> Validate(fp),
                             fp_id |-> EmptyText]
            /\ UNCHANGED <<flight_plans_missing_approval, submitted, artifacts, events>>
       ELSE \E flight_plan_uuid \in uuid4 :
            \* create_artifact: the store is content-addressed; on content it
            \* already holds it raises IntegrityError carrying the same sha1
            /\ artifacts' = artifacts \cup {fp}
            /\ submitted' = DictSet(submitted, flight_plan_uuid, fp)
            /\ flight_plans_missing_approval' =
                   DictSet(flight_plans_missing_approval, flight_plan_uuid, fp)
            /\ events' = events \cup
                   {SaveEvent(nsaves + 1, user_id, ArtifactId(artifacts, fp),
                              RegistryAtLogEvent(flight_plans_missing_approval,
                                                 flight_plans_missing_approval'))}
            /\ last_save' = [status |-> 201,
                             message |-> "Flight plan scheduled for approval",
                             fp_id |-> UUIDStr(flight_plan_uuid)]
    /\ UNCHANGED <<decisions, compiler_calls, sent, error_log>>

(* --------------------------- /approve/{uuid} --------------------------- *)

\* One /approve call and the background task it may add.
\*   flight_plan_uuid: the UUID of line 175, Invalid when the text spells none
\*   pc:   "compile" while awaiting the compiler, "returned", "raised"
\*   task: "none", "scheduled" (added, not started), "send_control" (awaiting
\*         the transport), "done", "raised"
Decision(flight_plan_uuid, user_id, pc, status, message) ==
    [flight_plan_uuid |-> flight_plan_uuid, user_id |-> user_id, pc |-> pc,
     status |-> status, message |-> message, compiled_plan |-> NotCompiled,
     task |-> "none", took |-> FALSE, gs_id |-> Invalid]

\* As RegistryAfterReject, removing the rejected plan as the route description
\* of line 152 says.
RegistryAfterReject_removes(reg, flight_plan_uuid) ==
    [x \in (DOMAIN reg) \ {flight_plan_uuid} |-> reg[x]]

\* Lines 184-186: the registry after a reject; the handler does not touch it.
RegistryAfterReject(reg, flight_plan_uuid) == reg

\* Lines 174-194, up to the await of the compiler.
approve_flight_plan(text, approved, user_id) ==
    /\ nsaves + Len(decisions) < MaxRequests
    /\ LET flight_plan_uuid == UUID(text)
           n == Len(decisions) + 1
           reg == flight_plans_missing_approval
       IN  IF flight_plan_uuid = Invalid
           THEN \* line 175 raises ValueError
                /\ decisions' = Append(decisions,
                       Decision(flight_plan_uuid, user_id, "raised", 500, "ValueError"))
                /\ UNCHANGED compiler_calls
           ELSE IF flight_plan_uuid \notin DOMAIN reg
           THEN \* line 179
                /\ decisions' = Append(decisions,
                       Decision(flight_plan_uuid, user_id, "raised", 404,
                                "Flight plan not found"))
                /\ UNCHANGED compiler_calls
           ELSE IF UUID(reg[flight_plan_uuid].gs_id) = Invalid
           THEN \* line 182 raises ValueError
                /\ decisions' = Append(decisions,
                       Decision(flight_plan_uuid, user_id, "raised", 500, "ValueError"))
                /\ UNCHANGED compiler_calls
           ELSE IF ~approved
           THEN \* line 186
                /\ decisions' = Append(decisions,
                       Decision(flight_plan_uuid, user_id, "returned", 202,
                                "Flight plan not approved by user"))
                /\ UNCHANGED compiler_calls
           ELSE \* line 194: the compiler is called and awaited
                /\ decisions' = Append(decisions,
                       Decision(flight_plan_uuid, user_id, "compile", 0, ""))
                /\ compiler_calls' = compiler_calls \cup
                       {[by |-> n, flight_plan |-> reg[flight_plan_uuid].flight_plan,
                         user_id |-> user_id]}
    /\ flight_plans_missing_approval' =
           IF /\ UUID(text) \in DOMAIN flight_plans_missing_approval
              /\ UUID(flight_plans_missing_approval[UUID(text)].gs_id) # Invalid
              /\ ~approved
           THEN RegistryAfterReject(flight_plans_missing_approval, UUID(text))
           ELSE flight_plans_missing_approval
    /\ UNCHANGED <<submitted, nsaves, last_save, artifacts, events, sent,
                   error_log>>

\* As compile_returns, awaiting _do_send_to_gs in the handler instead of adding
\* it as a background task: the entry is taken before 202 is returned.
compile_returns_awaits(n) ==
    /\ n \in DOMAIN decisions
    /\ decisions[n].pc = "compile"
    /\ decisions[n].flight_plan_uuid \in DOMAIN flight_plans_missing_approval
    /\ flight_plans_missing_approval' =
           DictPop(flight_plans_missing_approval, decisions[n].flight_plan_uuid)
    /\ decisions' = [decisions EXCEPT ![n].pc = "returned",
                                      ![n].status = 202,
                                      ![n].message = "Flight plan approved and scheduled for transmission to ground station.",
                                      ![n].compiled_plan = CompiledPlan(n),
                                      ![n].took = TRUE,
                                      ![n].task = "done"]
    /\ UNCHANGED <<submitted, nsaves, last_save, artifacts, events,
                   compiler_calls, sent, error_log>>

\* Lines 194-198: the compiler returns, the task is added, 202 is returned.
compile_returns(n) ==
    /\ n \in DOMAIN decisions
    /\ decisions[n].pc = "compile"
    /\ decisions' = [decisions EXCEPT ![n].pc = "returned",
                                      ![n].status = 202,
                                      ![n].message = "Flight plan approved and scheduled for transmission to ground station.",
                                      ![n].compiled_plan = CompiledPlan(n),
                                      ![n].task = "scheduled"]
    /\ UNCHANGED <<flight_plans_missing_approval, submitted, nsaves, last_save,
                   artifacts, events, compiler_calls, sent, error_log>>

\* As compile_raises, with the exception caught and the handler carrying on
\* to schedule the task without a compiled plan.
compile_raises_swallowed(n) ==
    /\ n \in DOMAIN decisions
    /\ decisions[n].pc = "compile"
    /\ decisions' = [decisions EXCEPT ![n].pc = "returned",
                                      ![n].status = 202,
                                      ![n].message = "Flight plan approved and scheduled for transmission to ground station.",
                                      ![n].task = "scheduled"]
    /\ UNCHANGED <<flight_plans_missing_approval, submitted, nsaves, last_save,
                   artifacts, events, compiler_calls, sent, error_log>>

\* Line 194: the compiler raises; the exception leaves the handler.
compile_raises(n) ==
    /\ n \in DOMAIN decisions
    /\ decisions[n].pc = "compile"
    /\ decisions' = [decisions EXCEPT ![n].pc = "raised",
                                      ![n].status = 500,
                                      ![n].message = "CompilerError"]
    /\ UNCHANGED <<flight_plans_missing_approval, submitted, nsaves, last_save,
                   artifacts, events, compiler_calls, sent, error_log>>

(* ---------------------------- _do_send_to_gs --------------------------- *)

\* As GsRegistered, without the check for a missing ground station.
GsRegistered_unchecked(gs_id) == TRUE

\* Line 257-258: whether the connector has a ground station of that id.
GsRegistered(gs_id) == gs_id \in registered_groundstations

\* As Frame, with the time and the satellite exchanged.
Frame_swapped(compiled_plan, datetime, satellite) ==
    [header_data |-> [type |-> "schedule_transmission",
                      data |-> [time |-> satellite, satellite |-> datetime]],
     frames |-> <<compiled_plan>>]

\* FramedContent of lines 263-274
Frame(compiled_plan, datetime, satellite) ==
    [header_data |-> [type |-> "schedule_transmission",
                      data |-> [time |-> datetime, satellite |-> satellite]],
     frames |-> <<compiled_plan>>]

\* The event of lines 224-241; "by" is the number of the /approve call.
SendOffEvent(n, user_id, artifact_id, gs_id) ==
    [descriptor |-> "ApprovedForSendOffEvent", user |-> user_id,
     artifact |-> artifact_id, gs |-> gs_id, by |-> n]

\* Lines 211-220 and send_to_gs up to the await of send_control (line 276);
\* when the ground station is not registered, through to line 241.
do_send_to_gs(n) ==
    /\ n \in DOMAIN decisions
    /\ decisions[n].task = "scheduled"
    /\ LET d == decisions[n]
           flight_plan_uuid == d.flight_plan_uuid
           reg == flight_plans_missing_approval
       IN  IF flight_plan_uuid \notin DOMAIN reg
           THEN \* line 211: dict.pop without a default raises KeyError
                /\ decisions' = [decisions EXCEPT ![n].task = "raised"]
                /\ UNCHANGED <<flight_plans_missing_approval, events, sent, error_log>>
           ELSE LET fp == reg[flight_plan_uuid]
                    flight_plan_gs_id == UUID(fp.gs_id)
                IN  /\ flight_plans_missing_approval' = DictPop(reg, flight_plan_uuid)
                    /\ IF flight_plan_gs_id = Invalid
                       THEN \* line 212 raises ValueError
                            /\ decisions' = [decisions EXCEPT ![n].task = "raised",
                                                              ![n].took = TRUE]
                            /\ UNCHANGED <<events, sent, error_log>>
                       ELSE IF ~GsRegistered(flight_plan_gs_id)
                       THEN \* lines 258-260, then 221-241
                            /\ error_log' = error_log \cup
                                   {[message |-> "GS not found",
                                     gs_id |-> flight_plan_gs_id, by |-> n]}
                            /\ events' = events \cup
                                   {SendOffEvent(n, d.user_id,
                                                 ArtifactOf(d.compiled_plan),
                                                 flight_plan_gs_id)}
                            /\ decisions' = [decisions EXCEPT ![n].task = "done",
                                                              ![n].took = TRUE,
                                                              ![n].gs_id = flight_plan_gs_id]
                            /\ UNCHANGED sent
                       ELSE \* lines 263-276
                            /\ sent' = sent \cup
                                   {[gs_id |-> flight_plan_gs_id,
                                     frame |-> Frame(d.compiled_plan, fp.datetime,
                                                     fp.sat_name),
                                     by |-> n]}
                            /\ decisions' = [decisions EXCEPT ![n].task = "send_control",
                                                              ![n].took = TRUE,
                                                              ![n].gs_id = flight_plan_gs_id]
                            /\ UNCHANGED <<events, error_log>>
    /\ UNCHANGED <<submitted, nsaves, last_save, artifacts, compiler_calls>>

\* Line 276 returns; lines 221-241.
send_control_returns(n) ==
    /\ n \in DOMAIN decisions
    /\ decisions[n].task = "send_control"
    /\ events' = events \cup
           {SendOffEvent(n, decisions[n].user_id,
                         ArtifactOf(decisions[n].compiled_plan), decisions[n].gs_id)}
    /\ decisions' = [decisions EXCEPT ![n].task = "done"]
    /\ UNCHANGED <<flight_plans_missing_approval, submitted, nsaves, last_save,
                   artifacts, compiler_calls, sent, error_log>>

\* Line 276 raises; the exception leaves the task.
send_control_raises(n) ==
    /\ n \in DOMAIN decisions
    /\ decisions[n].task = "send_control"
    /\ decisions' = [decisions EXCEPT ![n].task = "raised"]
    /\ UNCHANGED <<flight_plans_missing_approval, submitted, nsaves, last_save,
                   artifacts, events, compiler_calls, sent, error_log>>

(* ------------------------------- Next ---------------------------------- *)

Next ==
    \/ \E fp \in FlightPlan, u \in Users : new_flihtplan_schedule(fp, u)
    \/ \E t \in UuidTexts, a \in BOOLEAN, u \in Users : approve_flight_plan(t, a, u)
    \/ \E n \in 1 .. MaxRequests : compile_returns(n)
    \/ \E n \in 1 .. MaxRequests : compile_raises(n)
    \/ \E n \in 1 .. MaxRequests : do_send_to_gs(n)
    \/ \E n \in 1 .. MaxRequests : send_control_returns(n)
    \/ \E n \in 1 .. MaxRequests : send_control_raises(n)

Spec == Init /\ [][Next]_vars

\* Line 196: a task added to BackgroundTasks is run by the server once the
\* response has been sent, and the event loop resumes a task whose awaited
\* send_control (line 276) has finished, by returning or by raising.
SpecFair ==
    /\ Spec
    /\ \A n \in 1 .. MaxRequests :
          /\ WF_vars(do_send_to_gs(n))
          /\ WF_vars(send_control_returns(n) \/ send_control_raises(n))

(* ------------------------------ properties ----------------------------- *)

Acknowledged == "Flight plan approved and scheduled for transmission to ground station."
NotApproved == "Flight plan not approved by user"

\* The /approve calls on UUID u
DecisionsOn(u) == {n \in DOMAIN decisions : decisions[n].flight_plan_uuid = u}

\* The /approve calls on UUID u whose task took the entry out of the registry
Takers(u) == {n \in DecisionsOn(u) : decisions[n].took}

\* The send_control calls made for UUID u
SentFor(u) == {s \in sent : decisions[s.by].flight_plan_uuid = u}

\* C1: for every identifier, at most one dispatch task takes the entry out of
\* the registry and at most one send_control call is ever made for it.
C1_AtMostOnceDispatch ==
    \A u \in FlightPlanUUIDs :
        /\ Cardinality(Takers(u)) <= 1
        /\ Cardinality(SentFor(u)) <= 1

\* Two approvals of one identifier were both acknowledged and both tasks have
\* run: one took the entry and called the transport, the other found it gone.
C1_Witness ==
    \E n, m \in DOMAIN decisions :
        /\ n # m
        /\ decisions[n].flight_plan_uuid = decisions[m].flight_plan_uuid
        /\ decisions[n].took /\ decisions[n].task = "done"
        /\ \E s \in sent : s.by = n
        /\ decisions[m].status = 202 /\ decisions[m].message = Acknowledged
        /\ decisions[m].task = "raised" /\ ~decisions[m].took

\* C2 (as claimed): of two approvals of one known identifier, one is
\* dispatched and the other observes NotFound: once the task of one has taken
\* the entry, any other approval of that identifier that has been answered
\* (and was not stopped by a compiler failure) was answered 404.
C2_OtherObservesNotFound ==
    \A n, m \in DOMAIN decisions :
        ( /\ n # m
          /\ decisions[n].flight_plan_uuid = decisions[m].flight_plan_uuid
          /\ decisions[n].took
          /\ decisions[m].pc # "compile"
          /\ decisions[m].message \notin {NotApproved, "CompilerError"} )
        => decisions[m].status = 404

\* C3 (as claimed): a decision on an identifier that is not in the registry
\* is answered 404 and changes nothing: registry, compiler, tasks, transport
\* and audit log are as before.
C3_UnknownIsNotFound ==
    [][\A t \in UuidTexts, a \in BOOLEAN, u \in Users :
          ( /\ Len(decisions') = Len(decisions) + 1
            /\ UUID(t) \notin DOMAIN flight_plans_missing_approval
            /\ approve_flight_plan(t, a, u) )
          => /\ decisions'[Len(decisions')].status = 404
             /\ decisions'[Len(decisions')].task = "none"
             /\ UNCHANGED <<flight_plans_missing_approval, compiler_calls, sent,
                            events, artifacts>>]_vars

\* The message of the first missing field, in the order satellite name,
\* timestamp, ground-station identifier.
FirstMissing(fp) ==
    IF fp.sat_name = "" THEN "Rejected, Missing Satellite reference"
    ELSE IF fp.datetime = "" THEN "Rejected, Missing datetime"
    ELSE "Rejected, Missing GS ID"

Incomplete(fp) == fp.sat_name = "" \/ fp.datetime = "" \/ fp.gs_id = EmptyText

\* C4: a submission with an empty satellite name, timestamp or ground-station
\* identifier is answered with the rejection of the first missing field and
\* leaves the registry, the artifact store and the audit log unchanged.
C4_IncompleteRejected ==
    [][\A fp \in FlightPlan, u \in Users :
          (nsaves' = nsaves + 1 /\ Incomplete(fp) /\ new_flihtplan_schedule(fp, u))
          => /\ last_save'.message = FirstMissing(fp)
             /\ last_save'.fp_id = EmptyText
             /\ UNCHANGED <<flight_plans_missing_approval, submitted, artifacts,
                            events>>]_vars

\* A submission was rejected while the registry held an entry.
C4_Witness ==
    /\ last_save.message = "Rejected, Missing datetime"
    /\ DOMAIN flight_plans_missing_approval # {}
    /\ events # {}

\* C5 (as claimed): a reject decision on an identifier that is in the
\* registry is answered "Flight plan not approved by user", calls no compiler,
\* adds no task and causes no transport call.
C5_RejectAnswered ==
    [][\A t \in UuidTexts, u \in Users :
          ( /\ Len(decisions') = Len(decisions) + 1
            /\ UUID(t) \in DOMAIN flight_plans_missing_approval
            /\ approve_flight_plan(t, FALSE, u) )
          => /\ decisions'[Len(decisions')].message = NotApproved
             /\ decisions'[Len(decisions')].pc = "returned"
             /\ decisions'[Len(decisions')].task = "none"
             /\ UNCHANGED <<compiler_calls, sent>>]_vars

\* Whether /approve call n has been answered with the acknowledgement
Acked(d) == d.status = 202 /\ d.message = Acknowledged

\* C6: in the step that returns the acknowledgement of an approval, the task
\* it added has not started: it has not taken the entry and the transport has
\* no call of it; and an answer, once given, is never changed by what the
\* task does afterwards.
C6_AckBeforeDispatch ==
    [][/\ \A n \in DOMAIN decisions' :
             ( /\ Acked(decisions'[n])
               /\ (n \notin DOMAIN decisions \/ ~Acked(decisions[n])) )
             => /\ decisions'[n].task = "scheduled"
                /\ ~decisions'[n].took
                /\ \A s \in sent' : s.by # n
                /\ \A e \in events' : ~(e.descriptor = "ApprovedForSendOffEvent"
                                        /\ e.by = n)
       /\ \A n \in DOMAIN decisions :
             decisions[n].pc # "compile"
             => /\ decisions'[n].pc = decisions[n].pc
                /\ decisions'[n].status = decisions[n].status
                /\ decisions'[n].message = decisions[n].message]_vars

\* Two acknowledged approvals whose tasks took their entries and ended
\* differently, one completing and one with a transport failure; both answers
\* are still the acknowledgement.
C6_Witness ==
    \E n \in DOMAIN decisions :
        /\ Acked(decisions[n])
        /\ decisions[n].task = "raised" /\ decisions[n].took
        /\ \E m \in DOMAIN decisions :
              /\ m # n /\ Acked(decisions[m])
              /\ decisions[m].task = "done" /\ decisions[m].took

\* The /approve calls on UUID u that reached the compiler
CompiledFor(u) == {c \in compiler_calls : decisions[c.by].flight_plan_uuid = u}

\* The completion events of the tasks for UUID u
SendOffEventsFor(u) ==
    {e \in events : /\ e.descriptor = "ApprovedForSendOffEvent"
                    /\ decisions[e.by].flight_plan_uuid = u}

\* C7: for a submitted plan with a registered ground station and one approval,
\* once the task of that approval has finished: the compiler was called once,
\* with the submitted body; the transport got one frame, of type
\* schedule_transmission, with the submitted timestamp and satellite name in
\* the header and the compiled plan of that compiler call as body; and one
\* completion event was emitted.
C7_EndToEnd ==
    \A n \in DOMAIN decisions :
        LET u == decisions[n].flight_plan_uuid IN
        ( /\ decisions[n].task = "done"
          /\ UUID(submitted[u].gs_id) \in registered_groundstations
          /\ Cardinality(CompiledFor(u)) = 1 )
        => /\ CompiledFor(u) = {[by |-> n,
                                 flight_plan |-> submitted[u].flight_plan,
                                 user_id |-> decisions[n].user_id]}
           /\ SentFor(u) =
                 {[gs_id |-> UUID(submitted[u].gs_id),
                   frame |-> [header_data |->
                                 [type |-> "schedule_transmission",
                                  data |-> [time |-> submitted[u].datetime,
                                            satellite |-> submitted[u].sat_name]],
                              frames |-> <<CompiledPlan(n)>>],
                   by |-> n]}
           /\ Cardinality(SendOffEventsFor(u)) = 1

\* One submission, one approval, the frame delivered and the event emitted.
C7_Witness ==
    \E n \in DOMAIN decisions :
        /\ decisions[n].task = "done"
        /\ Cardinality(CompiledFor(decisions[n].flight_plan_uuid)) = 1
        /\ \E s \in sent : s.by = n
        /\ \E e \in events : e.descriptor = "ApprovedForSendOffEvent" /\ e.by = n

\* C8: when the ground station of an approved plan is not registered, the
\* task that took the plan logs the failure, calls no transport and ends
\* without raising, and its approval was already answered 202.
C8_UnresolvedGroundStation ==
    \A n \in DOMAIN decisions :
        ( /\ decisions[n].took
          /\ UUID(submitted[decisions[n].flight_plan_uuid].gs_id)
                 \notin registered_groundstations )
        => /\ decisions[n].task = "done"
           /\ \E l \in error_log : l.by = n /\ l.message = "GS not found"
           /\ \A s \in sent : s.by # n
           /\ decisions[n].pc = "returned" /\ Acked(decisions[n])

\* A task took a plan whose ground station is not registered.
C8_Witness ==
    \E n \in DOMAIN decisions :
        /\ decisions[n].took
        /\ submitted[decisions[n].flight_plan_uuid].gs_id = CanonicalText(102)

\* C9 (as claimed): after a reject decision on a known identifier has
\* returned, the identifier is no longer in the registry.
C9_RejectRemoves ==
    [][\A t \in UuidTexts, u \in Users :
          ( /\ Len(decisions') = Len(decisions) + 1
            /\ UUID(t) \in DOMAIN flight_plans_missing_approval
            /\ approve_flight_plan(t, FALSE, u)
            /\ decisions'[Len(decisions')].message = NotApproved )
          => UUID(t) \notin DOMAIN flight_plans_missing_approval']_vars

\* C10: the identifier a valid submission returns was returned by no earlier
\* submission, names no entry the registry held before, leaves the entries
\* the registry held as they were, and, parsed as /approve parses it, names
\* the submitted plan in the registry.
C10_FreshAndResolvable ==
    [][\A fp \in FlightPlan, u \in Users :
          (nsaves' = nsaves + 1 /\ ~Incomplete(fp) /\ new_flihtplan_schedule(fp, u))
          => LET id == UUID(last_save'.fp_id) IN
             /\ id # Invalid
             /\ id \notin DOMAIN submitted
             /\ id \notin DOMAIN flight_plans_missing_approval
             /\ id \in DOMAIN flight_plans_missing_approval'
             /\ flight_plans_missing_approval'[id] = fp
             /\ \A k \in DOMAIN flight_plans_missing_approval :
                   /\ k \in DOMAIN flight_plans_missing_approval'
                   /\ flight_plans_missing_approval'[k] =
                          flight_plans_missing_approval[k]]_vars

\* A second valid submission was made while the first was still pending.
C10_Witness ==
    /\ Cardinality(DOMAIN submitted) = 2
    /\ Cardinality(DOMAIN flight_plans_missing_approval) = 2
    /\ UUID(last_save.fp_id) \in DOMAIN flight_plans_missing_approval

\* The FlightplanSaveEvent events of /save call n
SaveEventsOf(n) ==
    {e \in events : e.descriptor = "FlightplanSaveEvent" /\ e.by = n}

\* C11: when a submission returns its identifier, its FlightplanSaveEvent has
\* been emitted, and the registry held the entry of that identifier when the
\* event was emitted.
C11_SaveEventBeforeReturn ==
    [][\A fp \in FlightPlan, u \in Users :
          (nsaves' = nsaves + 1 /\ ~Incomplete(fp) /\ new_flihtplan_schedule(fp, u))
          => /\ last_save'.fp_id # EmptyText
             /\ \E e \in events' \ events :
                   /\ e.descriptor = "FlightplanSaveEvent"
                   /\ e.by = nsaves'
                   /\ UUID(last_save'.fp_id) \in e.pending]_vars

\* A submission returned its identifier and its event is in the audit log,
\* emitted when the registry held that identifier.
C11_Witness ==
    /\ last_save.fp_id # EmptyText
    /\ \E e \in SaveEventsOf(nsaves) : UUID(last_save.fp_id) \in e.pending
    /\ nsaves = 2

\* C12: a successful submission adds one registry entry, emits one audit
\* event and creates at most one artifact; when the store already holds the
\* content, no artifact is created, the event names the stored artifact, and
\* an entry under a new identifier is still added.
C12_SubmissionEffects ==
    [][\A fp \in FlightPlan, u \in Users :
          (nsaves' = nsaves + 1 /\ ~Incomplete(fp) /\ new_flihtplan_schedule(fp, u))
          => LET id == UUID(last_save'.fp_id) IN
             /\ last_save'.status = 201
             /\ DOMAIN flight_plans_missing_approval' =
                    DOMAIN flight_plans_missing_approval \cup {id}
             /\ id \notin DOMAIN flight_plans_missing_approval
             /\ id \notin DOMAIN submitted
             /\ Cardinality(events' \ events) = 1
             /\ \A e \in events' \ events :
                   e.descriptor = "FlightplanSaveEvent" /\ e.artifact \in artifacts'
             /\ events \subseteq events'
             /\ artifacts \subseteq artifacts'
             /\ Cardinality(artifacts' \ artifacts) <= 1
             /\ fp \in artifacts
                => /\ artifacts' = artifacts
                   /\ \A e \in events' \ events : e.artifact = fp]_vars

\* The same content was submitted twice: two entries, two events, one
\* artifact.
C12_Witness ==
    /\ Cardinality(DOMAIN submitted) = 2
    /\ submitted[1] = submitted[2]
    /\ Cardinality(DOMAIN flight_plans_missing_approval) = 2
    /\ Cardinality(artifacts) = 1
    /\ Cardinality({e \in events : e.descriptor = "FlightplanSaveEvent"}) = 2

FoundTaken(n) ==
    /\ Acked(decisions[n])
    /\ decisions[n].task # "scheduled"
    /\ ~decisions[n].took

\* C15 (as claimed): a dispatch task that finds its identifier already taken
\* ends without raising, calls no transport and emits no completion event.
C15_DuplicateAbortsSilently ==
    \A n \in DOMAIN decisions :
        FoundTaken(n)
        => /\ decisions[n].task = "done"
           /\ \A s \in sent : s.by # n
           /\ \A e \in events : ~(e.descriptor = "ApprovedForSendOffEvent"
                                  /\ e.by = n)

\* The decisions that ended in a compiler failure
CompilerFailed(d) == d.pc = "raised" /\ d.message = "CompilerError"

C17_EventAfterDelivery ==
    \A e \in events :
        e.descriptor = "ApprovedForSendOffEvent"
        => /\ \E s \in sent : s.by = e.by
           /\ decisions[e.by].task = "done"

\* C18 (as claimed): a decision on an identifier that is in the registry is
\* answered "not approved" when it rejects and reaches the compiler when it
\* approves, so that it can fail only through the compiler.
C18_OnlyCompilerFails ==
    [][\A t \in UuidTexts, a \in BOOLEAN, u \in Users :
          ( /\ Len(decisions') = Len(decisions) + 1
            /\ UUID(t) \in DOMAIN flight_plans_missing_approval
            /\ approve_flight_plan(t, a, u) )
          => IF a
             THEN decisions'[Len(decisions')].pc = "compile"
             ELSE /\ decisions'[Len(decisions')].pc = "returned"
                  /\ decisions'[Len(decisions')].message = NotApproved]_vars

\* Whether the task of /approve call n has ended, by returning or by raising
Terminated(d) == d.task \in {"done", "raised"}

C20_TakenNeverReturns ==
    [][\A u \in FlightPlanUUIDs :
          Takers(u) # {}
          => /\ u \notin DOMAIN flight_plans_missing_approval
             /\ u \notin DOMAIN flight_plans_missing_approval'
             /\ nsaves' = nsaves + 1
                => last_save'.fp_id # UUIDStr(u)
             /\ \A t \in UuidTexts, a \in BOOLEAN, usr \in Users :
                   ( /\ Len(decisions') = Len(decisions) + 1
                     /\ UUID(t) = u
                     /\ approve_flight_plan(t, a, usr) )
                   => /\ decisions'[Len(decisions')].status = 404
                      /\ decisions'[Len(decisions')].message = "Flight plan not found"
                      /\ decisions'[Len(decisions')].pc = "raised"]_vars

\* An identifier was taken; a /save made after the take put another entry in
\* the registry, and a /approve call made after the take on the taken
\* identifier was answered 404.
C20_Witness ==
    \E u \in FlightPlanUUIDs :
        /\ Takers(u) # {}
        /\ \E e \in events :
              /\ e.descriptor = "FlightplanSaveEvent"
              /\ u \notin e.pending
              /\ \E x \in e.pending : x > u
        /\ \E n \in Takers(u), m \in DecisionsOn(u) :
              /\ n < m
              /\ decisions[m].status = 404

====
